---- MODULE Spec2Model ----
(***************************************************************************)
(* Model of deploy/task.go of ecs-goploy: construction of a Task (NewTask) *)
(* and one invocation of Task.RunTask, i.e. the submission of a one-off    *)
(* ECS task, the background worker polling DescribeTasks (waitExitTasks)   *)
(* and the coordinating three-way select of waitRunning.                   *)
(***************************************************************************)
EXTENDS Integers, Sequences, FiniteSets, TLC

(***************************************************************************)
(* Bounds of the model.                                                    *)
(***************************************************************************)
\* containers of one run, summed over the tasks the submission returns
MaxContainers == 3
\* container exit codes range over 0..MaxExit
MaxExit == 2
\* the DescribeTasks call counter saturates at MaxPolls ("MaxPolls or more")
MaxPolls == 1
\* entries of RunTaskOutput.Failures
MaxFailures == 2
\* length of the imageWithTag argument of NewTask, in characters
MaxImageLen == 3
\* length of the command argument of NewTask, in characters
MaxCommandLen == 3

\* containers of one run in the specification with fairness
MaxLiveContainers == 2

\* ExitCode == nil of ecs.Container
NilExit == -1

ExitCodes == 0..MaxExit

(***************************************************************************)
(* Errors.  A Go error value is a record; Nil is the nil error and         *)
(* NoResult says that RunTask has not returned yet.                        *)
(***************************************************************************)
Err(kind, code, reason) == [kind |-> kind, code |-> code, reason |-> reason]

Nil == Err("nil", 0, "")

NoResult == Err("none", 0, "")

\* errors.New("process timeout")
ProcessTimeout == Err("error", 0, "process timeout")

\* errors.Errorf("exit code: %v", code)
ExitCodeError(code) == Err("error", code, "exit code")

\* the error a failed DescribeTasks call returns
DescribeError == Err("error", 0, "DescribeTasks failed")

\* the transport error of a failed RunTaskWithContext call
TransportError == Err("error", 0, "RunTask failed")

\* Failure.Reason values of RunTaskOutput.Failures
Reasons == {"RESOURCE:MEMORY", "AGENT"}

\* errors.New(*resp.Failures[0].Reason)
ReasonError(reason) == Err("error", 0, reason)

(***************************************************************************)
(* Finite sequences.                                                       *)
(***************************************************************************)
SeqsUpTo(S, n) == UNION {[1..k -> S] : k \in 0..n}

RECURSIVE SumSeq(_)
SumSeq(s) == IF s = <<>> THEN 0 ELSE Head(s) + SumSeq(Tail(s))

\* the sub-sequence of s at the positions in keep, in the order of s
RECURSIVE SubSeqAt(_, _, _)
SubSeqAt(s, keep, i) ==
    IF i > Len(s) THEN <<>>
    ELSE (IF i \in keep THEN <<s[i]>> ELSE <<>>) \o SubSeqAt(s, keep, i + 1)

(***************************************************************************)
(* NewTask.  Strings are sequences of characters.  ImageChars and          *)
(* CommandChars are the characters the arguments are drawn from: "r" and   *)
(* "a" stand for any ordinary character.                                   *)
(***************************************************************************)
ImageChars == {"r", ":"}

CommandChars == {"a", " ", "\"", "'", "\\"}

VARIABLES
    ntIn,          \* the arguments of NewTask
    ntOut,         \* what NewTask returned: [called, task, err]
    pc,            \* RunTask / waitRunning: "start", "submitting", "select", "returned"
    result,        \* the error RunTask returned (Nil for success), NoResult before
    runTaskCalls,  \* RunTaskWithContext calls issued
    submitted,     \* what RunTaskWithContext returned: [kind, failures]
    tasks,         \* the control plane's state of the tasks resp.Tasks names
    ctxErr,        \* ctx.Err(): "none", "DeadlineExceeded" or "Canceled"
    wpc,           \* the worker goroutine: "none", "sleep", "describe", "send", "close", "exited"
    werr,          \* the value waitExitTasks returned to the goroutine
    errCh,         \* the buffered channel errCh (capacity 1)
    doneClosed,    \* whether close(done) has happened
    describeCalls, \* DescribeTasks calls issued (saturating at MaxPolls)
    poll,          \* the last completed poll of waitExitTasks
    sends,         \* values sent on errCh so far
    closes         \* close(done) calls so far

vars == <<ntIn, ntOut, pc, result, runTaskCalls, submitted, tasks, ctxErr, wpc, werr, errCh,
          doneClosed, describeCalls, poll, sends, closes>>

ntVars == <<ntIn, ntOut>>

runVars == <<pc, result, runTaskCalls, submitted, tasks, ctxErr, wpc, werr, errCh,
             doneClosed, describeCalls, poll, sends, closes>>

\* strings.Split(s, ":")
RECURSIVE SplitColon(_)
SplitColon(s) ==
    IF \A i \in 1..Len(s) : s[i] # ":" THEN <<s>>
    ELSE LET k == CHOOSE i \in 1..Len(s) : s[i] = ":" /\ \A j \in 1..(i - 1) : s[j] # ":"
         IN  <<SubSeq(s, 1, k - 1)>> \o SplitColon(SubSeq(s, k + 1, Len(s)))

\* the Image Reference Parser: repository and tag around exactly one ":",
\* both non-empty; an error otherwise
divideImageAndTag(imageWithTag) ==
    LET res == SplitColon(imageWithTag)
    IN  IF Len(res) = 2 /\ res[1] # <<>> /\ res[2] # <<>>
        THEN [repository |-> res[1], tag |-> res[2], err |-> Nil]
        ELSE [repository |-> <<>>, tag |-> <<>>,
              err |-> Err("error", 0, "malformed image reference")]

\* shellwords.Parser.Parse with ParseEnv and ParseBacktick off, one
\* character at a time: st is (args, buf, escaped, doubleQuoted,
\* singleQuoted, got)
RECURSIVE ParseFrom(_, _, _)
ParseFrom(line, i, st) ==
    IF i > Len(line)
    THEN LET args == IF st.got THEN Append(st.args, st.buf) ELSE st.args
         IN  IF st.escaped \/ st.singleQuoted \/ st.doubleQuoted
             THEN [args |-> <<>>, err |-> Err("error", 0, "invalid command line string")]
             ELSE [args |-> args, err |-> Nil]
    ELSE LET r == line[i]
         IN  IF st.escaped
             THEN ParseFrom(line, i + 1,
                      [st EXCEPT !.buf = Append(@, r), !.escaped = FALSE, !.got = TRUE])
             ELSE IF r = "\\"
             THEN IF st.singleQuoted
                  THEN ParseFrom(line, i + 1, [st EXCEPT !.buf = Append(@, r)])
                  ELSE ParseFrom(line, i + 1, [st EXCEPT !.escaped = TRUE])
             ELSE IF r = " "
             THEN IF st.singleQuoted \/ st.doubleQuoted
                  THEN ParseFrom(line, i + 1, [st EXCEPT !.buf = Append(@, r)])
                  ELSE IF st.got
                  THEN ParseFrom(line, i + 1,
                           [st EXCEPT !.args = Append(@, st.buf), !.buf = <<>>,
                                      !.got = FALSE])
                  ELSE ParseFrom(line, i + 1, st)
             ELSE IF r = "\"" /\ ~st.singleQuoted
             THEN ParseFrom(line, i + 1,
                      [st EXCEPT !.doubleQuoted = ~@, !.got = TRUE])
             ELSE IF r = "'" /\ ~st.doubleQuoted
             THEN ParseFrom(line, i + 1,
                      [st EXCEPT !.singleQuoted = ~@, !.got = TRUE])
             ELSE ParseFrom(line, i + 1,
                      [st EXCEPT !.buf = Append(@, r), !.got = TRUE])

Parse(line) ==
    ParseFrom(line, 1, [args |-> <<>>, buf |-> <<>>, escaped |-> FALSE,
                        doubleQuoted |-> FALSE, singleQuoted |-> FALSE, got |-> FALSE])

\* a nil *Image and a nil *Task
NilImage == [isNil |-> TRUE, Repository |-> <<>>, Tag |-> <<>>]

NilTask == [isNil |-> TRUE, BaseTaskDefinition |-> "nil", NewImage |-> NilImage,
            Command |-> <<>>]

\* NewTask without the check of baseTaskDefinition
NewTask_NoBaseCheck(imageWithTag, command, baseTaskDefinition) ==
    LET img == divideImageAndTag(imageWithTag)
        cmd == Parse(command)
    IN  IF Len(imageWithTag) > 0 /\ img.err # Nil
        THEN [task |-> NilTask, err |-> img.err]
        ELSE IF cmd.err # Nil
        THEN [task |-> NilTask, err |-> Err("error", 0, "Parse error in a task command")]
        ELSE [task |-> [isNil |-> FALSE,
                        BaseTaskDefinition |-> baseTaskDefinition,
                        NewImage |-> IF Len(imageWithTag) > 0
                                     THEN [isNil |-> FALSE, Repository |-> img.repository,
                                           Tag |-> img.tag]
                                     ELSE NilImage,
                        Command |-> cmd.args],
              err |-> Nil]

\* NewTask(cluster, name, imageWithTag, command, baseTaskDefinition, ...):
\* the returned (*Task, error)
NewTask(imageWithTag, command, baseTaskDefinition) ==
    IF baseTaskDefinition = "nil"
    THEN [task |-> NilTask, err |-> Err("error", 0, "task definition is required")]
    ELSE LET img == divideImageAndTag(imageWithTag)
             cmd == Parse(command)
         IN  IF Len(imageWithTag) > 0 /\ img.err # Nil
             THEN [task |-> NilTask, err |-> img.err]
             ELSE IF cmd.err # Nil
             THEN [task |-> NilTask,
                   err |-> Err("error", 0, "Parse error in a task command")]
             ELSE [task |-> [isNil |-> FALSE,
                             BaseTaskDefinition |-> baseTaskDefinition,
                             NewImage |-> IF Len(imageWithTag) > 0
                                          THEN [isNil |-> FALSE,
                                                Repository |-> img.repository,
                                                Tag |-> img.tag]
                                          ELSE NilImage,
                             Command |-> cmd.args],
                   err |-> Nil]

NotCalled == [called |-> FALSE, task |-> NilTask, err |-> Nil]

\* the caller invokes NewTask on its arguments
CallNewTask ==
    /\ ~ntOut.called
    /\ LET r == NewTask(ntIn.imageWithTag, ntIn.command, ntIn.baseTaskDefinition)
       IN  ntOut' = [called |-> TRUE, task |-> r.task, err |-> r.err]
    /\ UNCHANGED <<ntIn, runVars>>

(***************************************************************************)
(* The observation loop: one poll of waitExitTasks on a DescribeTasks      *)
(* response resp, a sequence of tasks [arn, desiredStatus, containers],    *)
(* containers being the sequence of the containers' exit codes.            *)
(***************************************************************************)
checkTaskStopped(task) == task.desiredStatus = "STOPPED"

\* checkTaskSucceeded returning the code 1 for every failing container, as
\* it does for an unreadable one
RECURSIVE checkContainersFrom_CodeOne(_, _)
checkContainersFrom_CodeOne(containers, j) ==
    IF j > Len(containers)
    THEN [code |-> 0, result |-> TRUE, err |-> Nil]
    ELSE IF containers[j] = NilExit
    THEN [code |-> 1, result |-> FALSE, err |-> Err("error", 0, "can not read exit code")]
    ELSE IF containers[j] # 0
    THEN [code |-> 1, result |-> FALSE, err |-> Nil]
    ELSE checkContainersFrom_CodeOne(containers, j + 1)

\* checkTaskSucceeded with the comparison of the exit code inverted: a
\* container that exited with 0 fails the task
RECURSIVE checkContainersFrom_ZeroFails(_, _)
checkContainersFrom_ZeroFails(containers, j) ==
    IF j > Len(containers)
    THEN [code |-> 0, result |-> TRUE, err |-> Nil]
    ELSE IF containers[j] = NilExit
    THEN [code |-> 1, result |-> FALSE, err |-> Err("error", 0, "can not read exit code")]
    ELSE IF containers[j] = 0
    THEN [code |-> containers[j], result |-> FALSE, err |-> Nil]
    ELSE checkContainersFrom_ZeroFails(containers, j + 1)

\* checkTaskSucceeded: the returned (code, result, err), scanning the
\* containers from the j-th on
RECURSIVE checkContainersFrom(_, _)
checkContainersFrom(containers, j) ==
    IF j > Len(containers)
    THEN [code |-> 0, result |-> TRUE, err |-> Nil]
    ELSE IF containers[j] = NilExit
    THEN [code |-> 1, result |-> FALSE, err |-> Err("error", 0, "can not read exit code")]
    ELSE IF containers[j] # 0
    THEN [code |-> containers[j], result |-> FALSE, err |-> Nil]
    ELSE checkContainersFrom(containers, j + 1)

checkTaskSucceeded(task) == checkContainersFrom(task.containers, 1)

\* the first loop of a poll passes without "continue retry" when there is
\* some stopped task (instead of no task that is not stopped)
AllStopped_Any(resp) ==
    resp = <<>> \/ \E i \in 1..Len(resp) : checkTaskStopped(resp[i])

\* the first loop of a poll: no task of resp makes it "continue retry"
AllStopped(resp) == \A i \in 1..Len(resp) : checkTaskStopped(resp[i])

\* the second loop of a poll failing fast on an evaluation error: the
\* error of checkTaskSucceeded is reported with its code instead of retried
RECURSIVE EvaluateFrom_FailFast(_, _)
EvaluateFrom_FailFast(resp, i) ==
    IF i > Len(resp)
    THEN [outcome |-> "return", err |-> Nil, evaluated |-> i - 1]
    ELSE LET r == checkContainersFrom(resp[i].containers, 1)
         IN  IF ~r.result
             THEN [outcome |-> "return", err |-> ExitCodeError(r.code), evaluated |-> i]
             ELSE EvaluateFrom_FailFast(resp, i + 1)

\* the second loop of a poll, from the i-th task of resp on: what the poll
\* does ("retry", or "return" with err) and the number of tasks
\* checkTaskSucceeded was called on
RECURSIVE EvaluateFrom(_, _)
EvaluateFrom(resp, i) ==
    IF i > Len(resp)
    THEN [outcome |-> "return", err |-> Nil, evaluated |-> i - 1]
    ELSE LET r == checkTaskSucceeded(resp[i])
         IN  IF r.err # Nil
             THEN [outcome |-> "retry", err |-> Nil, evaluated |-> i]
             ELSE IF ~r.result
             THEN [outcome |-> "return", err |-> ExitCodeError(r.code), evaluated |-> i]
             ELSE EvaluateFrom(resp, i + 1)

\* the body of the retry loop of waitExitTasks after a DescribeTasks call
\* that returned resp without error
PollOnce(resp) ==
    IF ~AllStopped(resp)
    THEN [outcome |-> "retry", err |-> Nil, evaluated |-> 0]
    ELSE EvaluateFrom(resp, 1)

\* no poll completed (yet, or since the worker issued its current call)
NoPoll == [completed |-> FALSE, resp |-> <<>>, outcome |-> "none", err |-> Nil,
           evaluated |-> 0, ctxErr |-> "none"]

(***************************************************************************)
(* The tasks a submission returns: task i has shape[i] containers, is not  *)
(* stopped and no container has exited.                                    *)
(***************************************************************************)
ShapesUpTo(n) ==
    {sh \in SeqsUpTo(1..n, n) : sh # <<>> /\ SumSeq(sh) <= n}

TaskShapes == ShapesUpTo(MaxContainers)

NewTasks(shape) ==
    [i \in 1..Len(shape) |->
        [arn |-> i, desiredStatus |-> "RUNNING",
         containers |-> [j \in 1..shape[i] |-> NilExit]]]

\* RunTaskOutput.Failures: a sequence of failure reasons
FailureLists == SeqsUpTo(Reasons, MaxFailures) \ {<<>>}

\* the DescribeTasks responses on the present state of the tasks: the tasks
\* found, in order (a task the control plane does not find is left out)
Responses == {SubSeqAt(tasks, keep, 1) : keep \in SUBSET (1..Len(tasks))}

(***************************************************************************)
(* Task.RunTask: the submission.                                           *)
(***************************************************************************)
\* the deferred cancel() of RunTask
Cancel(e) == IF e = "none" THEN "Canceled" ELSE e

Return(err) ==
    /\ result' = err
    /\ pc' = "returned"
    /\ ctxErr' = Cancel(ctxErr)

\* t.awsECS.RunTaskWithContext(ctx, params) is called
SubmitCall ==
    /\ pc = "start"
    /\ pc' = "submitting"
    /\ runTaskCalls' = runTaskCalls + 1
    /\ UNCHANGED <<ntVars, result, submitted, tasks, ctxErr, wpc, werr, errCh, doneClosed,
                   describeCalls, poll,
                   sends, closes>>

\* the call returns an error (as it does when ctx is done before the
\* response has come): return nil, err
SubmitTransportError ==
    /\ pc = "submitting"
    /\ submitted' = [kind |-> "error", failures |-> <<>>]
    /\ Return(TransportError)
    /\ UNCHANGED <<ntVars, runTaskCalls, tasks, wpc, werr, errCh, doneClosed,
                   describeCalls, poll,
                   sends, closes>>

\* a response with failures is taken for a response with tasks: the worker
\* is started and waitRunning entered
SubmitFailures_Observe ==
    /\ pc = "submitting"
    /\ ctxErr = "none"
    /\ \E failures \in FailureLists :
          /\ submitted' = [kind |-> "failures", failures |-> failures]
          /\ tasks' = NewTasks(<<Len(failures)>>)
          /\ pc' = "select"
          /\ wpc' = "sleep"
    /\ UNCHANGED <<ntVars, result, runTaskCalls, ctxErr, werr, errCh, doneClosed,
                   describeCalls, poll,
                   sends, closes>>

\* the call returns, before the deadline, a response with
\* len(resp.Failures) > 0: return the reason of the first failure
SubmitFailures ==
    /\ pc = "submitting"
    /\ ctxErr = "none"
    /\ \E failures \in FailureLists :
          /\ submitted' = [kind |-> "failures", failures |-> failures]
          /\ Return(ReasonError(failures[1]))
    /\ UNCHANGED <<ntVars, runTaskCalls, tasks, wpc, werr, errCh, doneClosed,
                   describeCalls, poll,
                   sends, closes>>

\* the call returns, before the deadline, tasks and no failure:
\* waitRunning makes the channels,
\* starts the worker goroutine (which begins with its sleep) and reaches
\* its select
SubmitOkOf(shapes) ==
    /\ pc = "submitting"
    /\ ctxErr = "none"
    /\ \E shape \in shapes : tasks' = NewTasks(shape)
    /\ submitted' = [kind |-> "tasks", failures |-> <<>>]
    /\ pc' = "select"
    /\ wpc' = "sleep"
    /\ UNCHANGED <<ntVars, result, runTaskCalls, ctxErr, werr, errCh, doneClosed,
                   describeCalls, poll,
                   sends, closes>>

SubmitOk == SubmitOkOf(TaskShapes)

\* a context without deadline: the timer never fires
DeadlineFire_NoTimer ==
    /\ FALSE
    /\ UNCHANGED vars

\* the deadline of context.WithTimeout(context.Background(), t.Timeout)
\* passes before RunTask has returned
DeadlineFire ==
    /\ pc # "returned"
    /\ ctxErr = "none"
    /\ ctxErr' = "DeadlineExceeded"
    /\ UNCHANGED <<ntVars, pc, result, runTaskCalls, submitted, tasks, wpc, werr, errCh,
                   doneClosed, describeCalls, poll,
                   sends, closes>>

(***************************************************************************)
(* The control plane.  Its state is seen through DescribeTasks only, so    *)
(* its steps are taken while a call is in flight; the response is the      *)
(* state at the return of the call.                                        *)
(***************************************************************************)
TaskStops(i) ==
    /\ wpc = "describe"
    /\ tasks[i].desiredStatus # "STOPPED"
    /\ tasks' = [tasks EXCEPT ![i].desiredStatus = "STOPPED"]
    /\ UNCHANGED <<ntVars, pc, result, runTaskCalls, submitted, ctxErr, wpc, werr, errCh,
                   doneClosed, describeCalls, poll,
                   sends, closes>>

ContainerExits(i, j, code) ==
    /\ wpc = "describe"
    /\ tasks[i].containers[j] = NilExit
    /\ tasks' = [tasks EXCEPT ![i].containers[j] = code]
    /\ UNCHANGED <<ntVars, pc, result, runTaskCalls, submitted, ctxErr, wpc, werr, errCh,
                   doneClosed, describeCalls, poll,
                   sends, closes>>

(***************************************************************************)
(* The worker goroutine of waitRunning, running waitExitTasks.             *)
(***************************************************************************)
\* time.Sleep(5 * time.Second) ends and t.awsECS.DescribeTasks is called
WorkerWake ==
    /\ wpc = "sleep"
    /\ wpc' = "describe"
    /\ describeCalls' = IF describeCalls < MaxPolls THEN describeCalls + 1 ELSE describeCalls
    /\ poll' = NoPoll
    /\ UNCHANGED <<ntVars, pc, result, runTaskCalls, submitted, tasks, ctxErr, werr, errCh,
                   doneClosed,
                   sends, closes>>

\* a DescribeTasks error is swallowed: the loop sleeps and polls again
DescribeFails_Retry ==
    /\ wpc = "describe"
    /\ wpc' = "sleep"
    /\ poll' = [NoPoll EXCEPT !.outcome = "error", !.err = DescribeError,
                              !.ctxErr = ctxErr]
    /\ UNCHANGED <<ntVars, pc, result, runTaskCalls, submitted, tasks, ctxErr, werr, errCh,
                   doneClosed, describeCalls,
                   sends, closes>>

\* DescribeTasks returns an error: waitExitTasks returns it
DescribeFails ==
    /\ wpc = "describe"
    /\ werr' = DescribeError
    /\ wpc' = "send"
    /\ poll' = [NoPoll EXCEPT !.outcome = "error", !.err = DescribeError,
                              !.ctxErr = ctxErr]
    /\ UNCHANGED <<ntVars, pc, result, runTaskCalls, submitted, tasks, ctxErr, errCh,
                   doneClosed, describeCalls,
                   sends, closes>>

\* "continue retry" skips the sleep: the next DescribeTasks call is issued
\* at once
DescribeReturns_BusyPoll ==
    /\ wpc = "describe"
    /\ \E resp \in Responses :
          LET r == PollOnce(resp)
          IN  /\ poll' = [completed |-> TRUE, resp |-> resp, outcome |-> r.outcome,
                          err |-> r.err, evaluated |-> r.evaluated, ctxErr |-> ctxErr]
              /\ IF r.outcome = "retry"
                 THEN wpc' = "describe" /\ werr' = werr
                 ELSE /\ werr' = r.err
                      /\ wpc' = IF r.err # Nil THEN "send" ELSE "close"
    /\ UNCHANGED <<ntVars, pc, result, runTaskCalls, submitted, tasks, ctxErr, errCh,
                   doneClosed, describeCalls, sends, closes>>

\* the loop lacks its final "return nil": after a poll in which every task
\* succeeded the worker sleeps and polls again
DescribeReturns_KeepsPolling ==
    /\ wpc = "describe"
    /\ \E resp \in Responses :
          LET r == PollOnce(resp)
          IN  /\ poll' = [completed |-> TRUE, resp |-> resp, outcome |-> r.outcome,
                          err |-> r.err, evaluated |-> r.evaluated, ctxErr |-> ctxErr]
              /\ IF r.outcome = "retry" \/ r.err = Nil
                 THEN wpc' = "sleep" /\ werr' = werr
                 ELSE /\ werr' = r.err
                      /\ wpc' = "send"
    /\ UNCHANGED <<ntVars, pc, result, runTaskCalls, submitted, tasks, ctxErr, errCh,
                   doneClosed, describeCalls, sends, closes>>

\* DescribeTasks returns resp: the two loops over resp.Tasks run, and the
\* worker sleeps again ("continue retry") or waitExitTasks returns
DescribeReturns ==
    /\ wpc = "describe"
    /\ \E resp \in Responses :
          LET r == PollOnce(resp)
          IN  /\ poll' = [completed |-> TRUE, resp |-> resp, outcome |-> r.outcome,
                          err |-> r.err, evaluated |-> r.evaluated, ctxErr |-> ctxErr]
              /\ IF r.outcome = "retry"
                 THEN wpc' = "sleep" /\ werr' = werr
                 ELSE /\ werr' = r.err
                      /\ wpc' = IF r.err # Nil THEN "send" ELSE "close"
    /\ UNCHANGED <<ntVars, pc, result, runTaskCalls, submitted, tasks, ctxErr, errCh,
                   doneClosed, describeCalls,
                   sends, closes>>

\* errCh without a buffer: the send proceeds only while the select of
\* waitRunning is there to receive
WorkerSend_Unbuffered ==
    /\ wpc = "send"
    /\ pc = "select"
    /\ Len(errCh) < 1
    /\ errCh' = Append(errCh, werr)
    /\ sends' = sends + 1
    /\ wpc' = "close"
    /\ UNCHANGED <<ntVars, pc, result, runTaskCalls, submitted, tasks, ctxErr, werr,
                   doneClosed, describeCalls, poll, closes>>

\* errCh <- err (errCh has capacity 1)
WorkerSend ==
    /\ wpc = "send"
    /\ Len(errCh) < 1
    /\ errCh' = Append(errCh, werr)
    /\ sends' = sends + 1
    /\ wpc' = "close"
    /\ UNCHANGED <<ntVars, pc, result, runTaskCalls, submitted, tasks, ctxErr, werr,
                   doneClosed, describeCalls, poll, closes>>

\* close(done), and the goroutine ends (closing a closed channel panics)
WorkerClose ==
    /\ wpc = "close"
    /\ ~doneClosed
    /\ doneClosed' = TRUE
    /\ closes' = closes + 1
    /\ wpc' = "exited"
    /\ UNCHANGED <<ntVars, pc, result, runTaskCalls, submitted, tasks, ctxErr, werr, errCh,
                   describeCalls, poll, sends>>

(***************************************************************************)
(* The select of waitRunning: one of the cases that can proceed is taken,  *)
(* and RunTask returns what waitRunning returns.                           *)
(***************************************************************************)
\* case err := <-errCh
CoordRecvErr ==
    /\ pc = "select"
    /\ errCh # <<>>
    /\ errCh' = Tail(errCh)
    /\ Return(Head(errCh))
    /\ UNCHANGED <<ntVars, runTaskCalls, submitted, tasks, wpc, werr, doneClosed,
                   describeCalls, poll,
                   sends, closes>>

\* the done case is taken again after waitRunning has returned
CoordDone_Again ==
    /\ pc \in {"select", "returned"}
    /\ doneClosed
    /\ Return(Nil)
    /\ UNCHANGED <<ntVars, runTaskCalls, submitted, tasks, wpc, werr, errCh, doneClosed,
                   describeCalls, poll,
                   sends, closes>>

\* case <-done
CoordDone ==
    /\ pc = "select"
    /\ doneClosed
    /\ Return(Nil)
    /\ UNCHANGED <<ntVars, runTaskCalls, submitted, tasks, wpc, werr, errCh, doneClosed,
                   describeCalls, poll,
                   sends, closes>>

\* the timeout case waits for the worker to have ended
CoordTimeout_AfterWorker ==
    /\ pc = "select"
    /\ ctxErr # "none"
    /\ wpc = "exited"
    /\ Return(ProcessTimeout)
    /\ UNCHANGED <<ntVars, runTaskCalls, submitted, tasks, wpc, werr, errCh, doneClosed,
                   describeCalls, poll,
                   sends, closes>>

\* case <-ctx.Done()
CoordTimeout ==
    /\ pc = "select"
    /\ ctxErr # "none"
    /\ Return(ProcessTimeout)
    /\ UNCHANGED <<ntVars, runTaskCalls, submitted, tasks, wpc, werr, errCh, doneClosed,
                   describeCalls, poll,
                   sends, closes>>

(***************************************************************************)
(* Specifications.                                                         *)
(***************************************************************************)
InitRun ==
    /\ pc = "start"
    /\ result = NoResult
    /\ runTaskCalls = 0
    /\ submitted = [kind |-> "none", failures |-> <<>>]
    /\ tasks = <<>>
    /\ ctxErr = "none"
    /\ wpc = "none"
    /\ werr = Nil
    /\ errCh = <<>>
    /\ doneClosed = FALSE
    /\ describeCalls = 0
    /\ poll = NoPoll
    /\ sends = 0
    /\ closes = 0

\* RunTask is entered on a Task that NewTask has built
Init ==
    /\ ntIn = [imageWithTag |-> <<"r", ":", "r">>, command |-> <<"a">>,
               baseTaskDefinition |-> "td"]
    /\ ntOut = [called |-> TRUE,
                task |-> NewTask(ntIn.imageWithTag, ntIn.command,
                                 ntIn.baseTaskDefinition).task,
                err |-> Nil]
    /\ InitRun

Next ==
    \/ SubmitCall
    \/ SubmitTransportError
    \/ SubmitFailures
    \/ SubmitOk
    \/ DeadlineFire
    \/ \E i \in 1..Len(tasks) : TaskStops(i)
    \/ \E i \in 1..Len(tasks) : \E j \in 1..Len(tasks[i].containers) :
          \E code \in ExitCodes : ContainerExits(i, j, code)
    \/ WorkerWake
    \/ DescribeFails
    \/ DescribeReturns
    \/ WorkerSend
    \/ WorkerClose
    \/ CoordRecvErr
    \/ CoordDone
    \/ CoordTimeout

Spec == Init /\ [][Next]_vars

\* The Go runtime fires the timer of the context once its time has come,
\* and runs the goroutine of waitRunning while a case of its select can
\* proceed.  Nothing is assumed of the worker nor of the control plane.
\* The runs are those of Spec with at most MaxLiveContainers containers.
FairNext ==
    \/ SubmitCall
    \/ SubmitTransportError
    \/ SubmitFailures
    \/ SubmitOkOf(ShapesUpTo(MaxLiveContainers))
    \/ DeadlineFire
    \/ \E i \in 1..Len(tasks) : TaskStops(i)
    \/ \E i \in 1..Len(tasks) : \E j \in 1..Len(tasks[i].containers) :
          \E code \in ExitCodes : ContainerExits(i, j, code)
    \/ WorkerWake
    \/ DescribeFails
    \/ DescribeReturns
    \/ WorkerSend
    \/ WorkerClose
    \/ CoordRecvErr
    \/ CoordDone
    \/ CoordTimeout

FairSpec ==
    /\ Init
    /\ [][FairNext]_vars
    /\ WF_vars(DeadlineFire)
    /\ WF_vars(CoordRecvErr \/ CoordDone \/ CoordTimeout)

\* NewTask on every combination of arguments within the bounds
InitNewTask ==
    /\ ntIn \in [imageWithTag : SeqsUpTo(ImageChars, MaxImageLen),
                 command : SeqsUpTo(CommandChars, MaxCommandLen),
                 baseTaskDefinition : {"nil", "td"}]
    /\ ntOut = NotCalled
    /\ InitRun

NextNewTask == CallNewTask

SpecNewTask == InitNewTask /\ [][NextNewTask]_vars

(***************************************************************************)
(* Properties.                                                             *)
(***************************************************************************)
\* RunTask has returned the error "exit code: N" for some N
IsExitCodeError(err) == err.kind = "error" /\ err.reason = "exit code"

\* resp lists every submitted task, each stopped with every exit code zero
ShowsAllSucceeded(resp) ==
    /\ tasks # <<>>
    /\ \A i \in 1..Len(tasks) : \E k \in 1..Len(resp) : resp[k].arn = tasks[i].arn
    /\ \A k \in 1..Len(resp) :
          /\ resp[k].desiredStatus = "STOPPED"
          /\ \A j \in 1..Len(resp[k].containers) : resp[k].containers[j] = 0

C2_NoPollAfterTimeout ==
    [][result = ProcessTimeout => ~(wpc # "describe" /\ wpc' = "describe")]_vars

\* C3: when the worker finished with "exit code: N", RunTask never returns
\* nil: it returns nil only when the worker finished without error.
C3_FailureNeverReportedAsSuccess ==
    result = Nil => ~IsExitCodeError(werr)

\* C4: in every poll, checkTaskSucceeded is called only if every task of
\* the response is stopped: when some task of the response is not stopped,
\* no task is evaluated, the poll returns nothing and the worker sleeps to
\* poll again.
C4_EvaluateOnlyWhenAllStopped ==
    (/\ poll.completed
     /\ \E k \in 1..Len(poll.resp) : poll.resp[k].desiredStatus # "STOPPED")
    => (/\ poll.evaluated = 0
        /\ poll.outcome = "retry"
        /\ poll.err = Nil
        /\ wpc = "sleep")

C4_Witness ==
    /\ poll.completed
    /\ Len(poll.resp) = 2
    /\ poll.resp[1].desiredStatus = "STOPPED"
    /\ poll.resp[1].containers = <<0>>
    /\ poll.resp[2].desiredStatus # "STOPPED"
    /\ poll.outcome = "retry"

\* C5: if some submitted task has not reached the stopped state when
\* RunTask returns, the result is neither Succeeded nor Failed with an exit
\* code (it is "process timeout").
C5_UnstoppedTaskNeverSucceeds ==
    (/\ pc = "returned"
     /\ submitted.kind = "tasks"
     /\ \E i \in 1..Len(tasks) : tasks[i].desiredStatus # "STOPPED")
    => (result # Nil /\ ~IsExitCodeError(result))

\* C6 as stated: if a poll that completes before the deadline fires shows
\* every submitted task stopped with every exit code zero, RunTask returns
\* nil.
C6_SuccessBeforeDeadline ==
    (/\ poll.completed
     /\ poll.ctxErr = "none"
     /\ ShowsAllSucceeded(poll.resp)
     /\ pc = "returned")
    => result = Nil

\* C6 (amended): if a poll shows every submitted task stopped with every
\* exit code zero, the worker ends without error, sends nothing on errCh
\* and polls no more, and RunTask returns nil or, when the deadline has
\* fired before the select took the done case, "process timeout"; it never
\* returns a failure.
C6_SuccessOrTimeout ==
    (poll.completed /\ ShowsAllSucceeded(poll.resp))
    => (/\ wpc \in {"close", "exited"}
        /\ werr = Nil
        /\ errCh = <<>>
        /\ pc = "returned" => result \in {Nil, ProcessTimeout}
        /\ result = ProcessTimeout => ctxErr = "DeadlineExceeded"
        /\ (pc = "returned" /\ ctxErr # "DeadlineExceeded") => result = Nil)

C6_Witness ==
    /\ poll.completed
    /\ poll.ctxErr = "none"
    /\ Len(poll.resp) = 2
    /\ ShowsAllSucceeded(poll.resp)
    /\ pc = "returned"
    /\ result = Nil

\* C7: a submission failure is fatal and never followed by observation.
\* When RunTaskWithContext returns an error, RunTask returns it; when it
\* returns failures, RunTask returns the reason of the first one; in both
\* cases no worker is started, no DescribeTasks call is issued and
\* RunTaskWithContext has been called exactly once.
C7_SubmissionFailureIsFatal ==
    /\ submitted.kind = "error" => result = TransportError
    /\ submitted.kind = "failures" => result = ReasonError(submitted.failures[1])
    /\ submitted.kind \in {"error", "failures"} =>
          /\ pc = "returned"
          /\ wpc = "none"
          /\ describeCalls = 0
          /\ runTaskCalls = 1
          /\ tasks = <<>>
          /\ poll = NoPoll

C7_Witness ==
    /\ submitted.kind = "failures"
    /\ Len(submitted.failures) = 2
    /\ submitted.failures[1] # submitted.failures[2]
    /\ result = ReasonError(submitted.failures[1])

\* C8: when the deadline has fired while waitRunning is in its select, the
\* step that returns "process timeout" is enabled whatever the worker is
\* doing (sleeping, or waiting for a DescribeTasks call to return).
C8_TimeoutDoesNotWait ==
    (pc = "select" /\ ctxErr = "DeadlineExceeded") => ENABLED CoordTimeout

C8_Witness ==
    /\ pc = "select"
    /\ ctxErr = "DeadlineExceeded"
    /\ wpc = "describe"
    /\ ENABLED CoordTimeout

\* C9: RunTask has a result exactly when it has returned, and once it has
\* returned the result never changes, whatever the worker or the deadline
\* do afterwards.
C9_TerminalIsFinal ==
    /\ [](pc = "returned" <=> result # NoResult)
    /\ [][pc = "returned" => (pc' = "returned" /\ result' = result)]_vars

C9_Witness ==
    /\ pc = "returned"
    /\ result = ProcessTimeout
    /\ wpc = "exited"
    /\ doneClosed
    /\ errCh # <<>>

\* the image string has exactly one ":", with a repository before it and a
\* tag after it
WellFormedImage(image) ==
    /\ Cardinality({i \in 1..Len(image) : image[i] = ":"}) = 1
    /\ image[1] # ":"
    /\ image[Len(image)] # ":"

\* C10: NewTask returns a Task exactly when the base task definition is
\* given, the image is empty or repository:tag, and the command tokenizes;
\* otherwise it returns an error and no Task ("task definition is required"
\* for a nil base definition).  An empty image gives a Task without
\* NewImage, an empty command an empty argument sequence.
C10_NewTaskContract ==
    ntOut.called =>
        LET ok == /\ ntIn.baseTaskDefinition # "nil"
                  /\ (ntIn.imageWithTag = <<>> \/ WellFormedImage(ntIn.imageWithTag))
                  /\ Parse(ntIn.command).err = Nil
        IN  /\ ~ntOut.task.isNil <=> ok
            /\ ntOut.err = Nil <=> ok
            /\ ntIn.baseTaskDefinition = "nil" =>
                  ntOut.err = Err("error", 0, "task definition is required")
            /\ ok => ntOut.task.BaseTaskDefinition = ntIn.baseTaskDefinition
            /\ (ok /\ ntIn.imageWithTag = <<>>) => ntOut.task.NewImage.isNil
            /\ (ok /\ ntIn.imageWithTag # <<>>) => ~ntOut.task.NewImage.isNil
            /\ (ok /\ ntIn.command = <<>>) => ntOut.task.Command = <<>>

C10_Witness ==
    /\ ntOut.called
    /\ ~ntOut.task.isNil
    /\ ntIn.imageWithTag = <<>>
    /\ ntIn.command = <<>>
    /\ ntOut.task.NewImage.isNil
    /\ ntOut.task.Command = <<>>

\* the exit codes of the containers of resp, task by task in the order of
\* the response and container by container in the order within the task
RECURSIVE FlattenCodes(_)
FlattenCodes(resp) ==
    IF resp = <<>> THEN <<>> ELSE Head(resp).containers \o FlattenCodes(Tail(resp))

\* every task of resp is stopped
EveryTaskStopped(resp) == \A k \in 1..Len(resp) : resp[k].desiredStatus = "STOPPED"

\* the position, in FlattenCodes(resp), of the first code that is not a
\* readable zero (0 if there is none)
FirstNotZero(resp) ==
    LET codes == FlattenCodes(resp)
    IN  IF \A n \in 1..Len(codes) : codes[n] = 0 THEN 0
        ELSE CHOOSE n \in 1..Len(codes) :
                 codes[n] # 0 /\ \A m \in 1..(n - 1) : codes[m] = 0

\* the position of the first container of resp that exited with a code
\* other than zero (0 if there is none)
FirstFailing(resp) ==
    LET codes == FlattenCodes(resp)
    IN  IF \A n \in 1..Len(codes) : codes[n] \in {0, NilExit} THEN 0
        ELSE CHOOSE n \in 1..Len(codes) :
                 codes[n] \notin {0, NilExit}
                 /\ \A m \in 1..(n - 1) : codes[m] \in {0, NilExit}

\* C11 as stated: when a poll shows every task stopped and some container
\* with a non-zero exit code, that poll fails the run with the exit code of
\* the first failing container, in the order of the response.
C11_FirstFailingReported ==
    (poll.completed /\ EveryTaskStopped(poll.resp) /\ FirstFailing(poll.resp) # 0)
    => (/\ poll.outcome = "return"
        /\ poll.err = ExitCodeError(FlattenCodes(poll.resp)[FirstFailing(poll.resp)]))

\* C11 (amended): when a poll shows every task stopped and the first
\* container whose exit code is not a readable zero (tasks in the order of
\* the response, containers in their order within the task) has a readable,
\* non-zero exit code, waitExitTasks returns "exit code: N" for that
\* container in that same poll, the worker goes on to send it on errCh and
\* polls no more, and an exit code RunTask reports is that one.
C11_FirstFailingUnlessUnreadable ==
    (/\ poll.completed
     /\ EveryTaskStopped(poll.resp)
     /\ FirstNotZero(poll.resp) # 0
     /\ FlattenCodes(poll.resp)[FirstNotZero(poll.resp)] # NilExit)
    => LET code == FlattenCodes(poll.resp)[FirstNotZero(poll.resp)]
       IN  /\ poll.outcome = "return"
           /\ poll.err = ExitCodeError(code)
           /\ werr = ExitCodeError(code)
           /\ wpc \in {"send", "close", "exited"}
           /\ IsExitCodeError(result) => result = ExitCodeError(code)

C11_Witness ==
    /\ poll.completed
    /\ Len(poll.resp) = 2
    /\ poll.resp[1].desiredStatus = "STOPPED"
    /\ poll.resp[1].containers = <<0, 2>>
    /\ poll.resp[2].desiredStatus = "STOPPED"
    /\ poll.resp[2].containers = <<1>>
    /\ result = ExitCodeError(2)

\* C12: when every task of a poll is stopped and the evaluation hits a
\* container whose exit code cannot be read, the poll produces neither
\* success nor failure: nothing is returned or sent, the worker sleeps to
\* poll again, and as long as this lasts the only result RunTask can have
\* is "process timeout".
C12_UnreadableExitCodeRetried ==
    (/\ poll.completed
     /\ EveryTaskStopped(poll.resp)
     /\ FirstNotZero(poll.resp) # 0
     /\ FlattenCodes(poll.resp)[FirstNotZero(poll.resp)] = NilExit)
    => (/\ poll.outcome = "retry"
        /\ poll.err = Nil
        /\ wpc = "sleep"
        /\ werr = Nil
        /\ sends = 0
        /\ closes = 0
        /\ pc = "returned" => result = ProcessTimeout)

C12_Witness ==
    /\ poll.completed
    /\ Len(poll.resp) = 2
    /\ EveryTaskStopped(poll.resp)
    /\ poll.resp[1].containers = <<0>>
    /\ poll.resp[2].containers = <<NilExit, 1>>
    /\ poll.outcome = "retry"
    /\ pc = "returned"
    /\ result = ProcessTimeout

\* C13: a DescribeTasks call is issued only out of the sleep, the first one
\* included, and a call that has returned is never followed by another call
\* without the sleep between them, whatever made the loop retry.
C13_SleepBeforeEveryPoll ==
    /\ [](wpc = "describe" => poll = NoPoll)
    /\ [][(wpc # "describe" /\ wpc' = "describe") => wpc = "sleep"]_vars
    /\ [][(wpc = "describe" /\ poll' # poll) => wpc' # "describe"]_vars
    /\ [][(pc = "submitting" /\ pc' = "select") => wpc' = "sleep"]_vars

C13_Witness ==
    /\ wpc = "sleep"
    /\ poll.completed
    /\ poll.outcome = "retry"
    /\ poll.evaluated > 0
    /\ describeCalls > 0

\* C14: after the poll in which waitExitTasks returned (nil or "exit code:
\* N"), the worker issues no further DescribeTasks call.
C14_NoPollAfterResult ==
    (poll.completed
     /\ EveryTaskStopped(poll.resp)
     /\ (FirstNotZero(poll.resp) = 0
         \/ FlattenCodes(poll.resp)[FirstNotZero(poll.resp)] # NilExit))
    => (/\ poll.outcome = "return"
        /\ wpc \in {"send", "close", "exited"})

C14_Witness ==
    /\ poll.completed
    /\ poll.outcome = "return"
    /\ poll.err = ExitCodeError(1)
    /\ wpc = "exited"
    /\ pc = "returned"
    /\ result = ExitCodeError(1)

\* C15: RunTask returns nil only if every submitted task was seen, in one
\* response, stopped with every exit code zero.
C15_SuccessNeedsEveryTask ==
    result = Nil => (poll.completed /\ ShowsAllSucceeded(poll.resp))

\* C16: the worker never blocks nor panics when it signals its result: at
\* most one value is sent on errCh, which never holds more than its
\* capacity, done is closed at most once, and the send and the close can
\* proceed whenever the worker is at them, also after waitRunning has
\* returned.
C16_SignallingNeverBlocks ==
    /\ Len(errCh) <= 1
    /\ sends <= 1
    /\ closes <= 1
    /\ wpc = "send" => (sends = 0 /\ errCh = <<>> /\ ENABLED WorkerSend)
    /\ wpc = "close" => (closes = 0 /\ ~doneClosed /\ ENABLED WorkerClose)
    /\ wpc = "exited" => (closes = 1 /\ doneClosed /\ (sends = 1 <=> werr # Nil))

C16_Witness ==
    /\ pc = "returned"
    /\ result = ProcessTimeout
    /\ wpc = "exited"
    /\ sends = 1
    /\ closes = 1
    /\ errCh = <<werr>>

\* C17: every call of waitRunning returns, whatever the worker and the
\* control plane do.
C17_WaitRunningReturns == (pc = "select") ~> (pc = "returned")

C17_Witness ==
    /\ pc = "returned"
    /\ result = ProcessTimeout
    /\ wpc = "describe"
    /\ \A i \in 1..Len(tasks) : tasks[i].desiredStatus # "STOPPED"

====
